---- MODULE Spec2Model ----
(***************************************************************************)
(* Model of the incident pipeline of src/src/processors/data_processor.py  *)
(* (DataProcessor) and of the post shape produced by                       *)
(* src/src/collectors/data_collector.py (DataCollector).                   *)
(*                                                                         *)
(* Text is modelled as a sequence of one-character strings so that         *)
(* lower-casing and substring search are computed, not assumed.            *)
(***************************************************************************)
EXTENDS Integers, Sequences, FiniteSets

VARIABLES
    input_file,      \* the raw JSON file: [readable, posts]
    prior_output,    \* the output file as it was before the call
    output_file,     \* the output file: [exists, content, complete]
    pc,              \* position inside process_data
    raw_data,        \* json.load result
    processed_data,  \* the list being built
    idx,             \* index of the entry being processed (1-based)
    ent_i,           \* index of the next entity of doc.ents to visit
    location_info,   \* result of extract_location for the current entry
    geolog,          \* every geocode call made so far, in order
    dumped,          \* number of records json.dump has written so far
    error,           \* "" or the kind of exception caught at line 163
    text,            \* argument of a stand-alone identify_incident_type call
    result,          \* its return value
    cpc              \* position of the stand-alone classifier call

vars == <<input_file, prior_output, output_file, pc, raw_data, processed_data,
          idx, ent_i, location_info, geolog, dumped, error, text, result, cpc>>

batch_vars == <<input_file, prior_output, output_file, pc, raw_data,
                processed_data, idx, ent_i, location_info, geolog, dumped, error>>

classify_vars == <<text, result, cpc>>

(***************************************************************************)
(* Bounds                                                                  *)
(***************************************************************************)
\* longest batch read from the input file
MaxBatch == 2

\* largest number of text pieces concatenated into a classifier input
MaxPieces == 2

(***************************************************************************)
(* str.lower() on the characters used                                      *)
(***************************************************************************)
Upper == {"A", "B", "C", "D", "E", "F", "G", "H", "I", "J", "K", "L", "M", "N", "O", "P", "Q", "R", "S", "T", "U", "V", "W", "X", "Y", "Z"}

lower_char(c) ==
    CASE c = "A" -> "a"
      [] c = "B" -> "b"
      [] c = "C" -> "c"
      [] c = "D" -> "d"
      [] c = "E" -> "e"
      [] c = "F" -> "f"
      [] c = "G" -> "g"
      [] c = "H" -> "h"
      [] c = "I" -> "i"
      [] c = "J" -> "j"
      [] c = "K" -> "k"
      [] c = "L" -> "l"
      [] c = "M" -> "m"
      [] c = "N" -> "n"
      [] c = "O" -> "o"
      [] c = "P" -> "p"
      [] c = "Q" -> "q"
      [] c = "R" -> "r"
      [] c = "S" -> "s"
      [] c = "T" -> "t"
      [] c = "U" -> "u"
      [] c = "V" -> "v"
      [] c = "W" -> "w"
      [] c = "X" -> "x"
      [] c = "Y" -> "y"
      [] c = "Z" -> "z"
      [] OTHER -> c

\* a lower() that leaves the text as it is
lower_unchanged(s) == s

lower(s) == [p \in 1..Len(s) |-> lower_char(s[p])]

\* Python's  needle in haystack  on strings
IsSubstring(needle, haystack) ==
    \E p \in 1..(Len(haystack) - Len(needle) + 1) :
        SubSeq(haystack, p, p + Len(needle) - 1) = needle

(***************************************************************************)
(* The keyword taxonomy, in the insertion order of the dict literal        *)
(***************************************************************************)
keywords ==
    <<
       <<<<"f","l","o","o","d">>, "flooding">>,
       <<<<"h","e","a","v","y"," ","r","a","i","n">>, "flooding">>,
       <<<<"i","n","u","n","d","a","t","i","o","n">>, "flooding">>,
       <<<<"w","a","t","e","r","l","o","g","g","i","n","g">>, "flooding">>,
       <<<<"h","u","r","r","i","c","a","n","e">>, "hurricane">>,
       <<<<"t","y","p","h","o","o","n">>, "hurricane">>,
       <<<<"c","y","c","l","o","n","e">>, "hurricane">>,
       <<<<"t","o","r","n","a","d","o">>, "tornado">>,
       <<<<"t","w","i","s","t","e","r">>, "tornado">>,
       <<<<"s","t","o","r","m">>, "storm">>,
       <<<<"t","h","u","n","d","e","r","s","t","o","r","m">>, "storm">>,
       <<<<"h","a","i","l","s","t","o","r","m">>, "storm">>,
       <<<<"b","l","i","z","z","a","r","d">>, "storm">>,
       <<<<"s","n","o","w","s","t","o","r","m">>, "storm">>,
       <<<<"d","r","o","u","g","h","t">>, "drought">>,
       <<<<"h","e","a","t","w","a","v","e">>, "drought">>,
       <<<<"w","i","l","d","f","i","r","e">>, "wildfire">>,
       <<<<"b","u","s","h","f","i","r","e">>, "wildfire">>,
       <<<<"f","o","r","e","s","t"," ","f","i","r","e">>, "wildfire">>,
       <<<<"e","a","r","t","h","q","u","a","k","e">>, "earthquake">>,
       <<<<"s","e","i","s","m","i","c">>, "earthquake">>,
       <<<<"q","u","a","k","e">>, "earthquake">>,
       <<<<"t","s","u","n","a","m","i">>, "tsunami">>,
       <<<<"t","i","d","a","l"," ","w","a","v","e">>, "tsunami">>,
       <<<<"v","o","l","c","a","n","o">>, "volcanic eruption">>,
       <<<<"e","r","u","p","t","i","o","n">>, "volcanic eruption">>,
       <<<<"l","a","v","a">>, "volcanic eruption">>,
       <<<<"a","s","h","f","a","l","l">>, "volcanic eruption">>,
       <<<<"l","a","n","d","s","l","i","d","e">>, "landslide">>,
       <<<<"m","u","d","s","l","i","d","e">>, "landslide">>,
       <<<<"a","v","a","l","a","n","c","h","e">>, "avalanche">>,
       <<<<"c","o","l","l","a","p","s","e">>, "building collapse">>,
       <<<<"b","u","i","l","d","i","n","g"," ","c","o","l","l","a","p","s","e">>, "building collapse">>,
       <<<<"s","i","n","k","h","o","l","e">>, "sinkhole">>,
       <<<<"p","a","n","d","e","m","i","c">>, "pandemic">>,
       <<<<"e","p","i","d","e","m","i","c">>, "epidemic">>,
       <<<<"d","i","s","e","a","s","e"," ","o","u","t","b","r","e","a","k">>, "epidemic">>,
       <<<<"f","i","r","e">>, "fire">>,
       <<<<"e","x","p","l","o","s","i","o","n">>, "explosion">>,
       <<<<"b","l","a","s","t">>, "explosion">>,
       <<<<"c","h","e","m","i","c","a","l"," ","s","p","i","l","l">>, "hazardous material">>,
       <<<<"g","a","s"," ","l","e","a","k">>, "hazardous material">>,
       <<<<"r","a","d","i","a","t","i","o","n"," ","l","e","a","k">>, "hazardous material">>,
       <<<<"t","o","x","i","c"," ","r","e","l","e","a","s","e">>, "hazardous material">>,
       <<<<"i","n","d","u","s","t","r","i","a","l"," ","a","c","c","i","d","e","n","t">>, "industrial accident">>,
       <<<<"t","r","a","i","n"," ","c","r","a","s","h">>, "transportation accident">>,
       <<<<"p","l","a","n","e"," ","c","r","a","s","h">>, "transportation accident">>,
       <<<<"s","h","i","p","w","r","e","c","k">>, "transportation accident">>,
       <<<<"r","o","a","d"," ","a","c","c","i","d","e","n","t">>, "transportation accident">>,
       <<<<"c","a","r"," ","c","r","a","s","h">>, "transportation accident">>,
       <<<<"v","e","h","i","c","l","e"," ","c","o","l","l","i","s","i","o","n">>, "transportation accident">>,
       <<<<"t","r","a","f","f","i","c"," ","i","n","c","i","d","e","n","t">>, "transportation accident">>,
       <<<<"t","e","r","r","o","r","i","s","t"," ","a","t","t","a","c","k">>, "terrorism">>,
       <<<<"b","o","m","b","i","n","g">>, "terrorism">>,
       <<<<"s","h","o","o","t","i","n","g">>, "terrorism">>,
       <<<<"h","o","s","t","a","g","e">>, "terrorism">>,
       <<<<"c","y","b","e","r","a","t","t","a","c","k">>, "cyberattack">>,
       <<<<"d","a","t","a"," ","b","r","e","a","c","h">>, "cyberattack">>,
       <<<<"p","h","i","s","h","i","n","g">>, "cyberattack">>,
       <<<<"p","o","w","e","r"," ","o","u","t","a","g","e">>, "infrastructure failure">>,
       <<<<"b","l","a","c","k","o","u","t">>, "infrastructure failure">>,
       <<<<"w","a","t","e","r"," ","s","h","o","r","t","a","g","e">>, "infrastructure failure">>,
       <<<<"b","r","i","d","g","e"," ","c","o","l","l","a","p","s","e">>, "infrastructure failure">>,
       <<<<"d","a","m"," ","b","r","e","a","c","h">>, "infrastructure failure">>,
       <<<<"r","i","o","t">>, "civil unrest">>,
       <<<<"p","r","o","t","e","s","t">>, "civil unrest">>,
       <<<<"d","e","m","o","n","s","t","r","a","t","i","o","n">>, "civil unrest">>,
       <<<<"s","t","a","m","p","e","d","e">>, "civil unrest">>
    >>

RECURSIVE scan_keywords(_, _)
scan_keywords(t, i) ==
    IF i > Len(keywords) THEN "unknown"
    ELSE IF IsSubstring(keywords[i][1], lower(t)) THEN keywords[i][2]
    ELSE scan_keywords(t, i + 1)

\* a scan that lets a later keyword override an earlier one
RECURSIVE scan_last(_, _)
scan_last(t, i) ==
    IF i < 1 THEN "unknown"
    ELSE IF IsSubstring(keywords[i][1], lower(t)) THEN keywords[i][2]
    ELSE scan_last(t, i - 1)

identify_last_match(t) == scan_last(t, Len(keywords))

identify_incident_type(t) == scan_keywords(t, 1)

(***************************************************************************)
(* Inputs of the stand-alone classifier calls                              *)
(***************************************************************************)
Pieces ==
    { <<"F","l","o","o","d">>,
      <<"F","I","R","E">>,
      <<"f","i","r","e">>,
      <<"w","i","l","d">>,
      <<"F","o","r","e","s","t"," ">>,
      <<"s","t","o","r","m">>,
      <<"T","h","u","n","d","e","r">>,
      <<"e","a","r","t","h">>,
      <<"Q","u","A","k","E">>,
      <<"B","r","i","d","g","e"," ">>,
      <<"b","u","i","l","d","i","n","g"," ">>,
      <<"c","o","l","l","a","p","s","e">>,
      <<"H","e","a","v","y"," ">>,
      <<"r","a","i","n">>,
      <<"r","i","o","t">>,
      <<"o","k"," ">> }

RECURSIVE Concat(_)
Concat(ss) == IF ss = <<>> THEN <<>> ELSE Head(ss) \o Concat(Tail(ss))

PieceSeqs == UNION { [1..n -> Pieces] : n \in 0..MaxPieces }

ClassifyInputs ==
    { Concat(ps) : ps \in PieceSeqs } \cup { keywords[i][1] : i \in 1..Len(keywords) }

(***************************************************************************)
(* Batch inputs: raw posts, the NER model and the geocoding service        *)
(***************************************************************************)
TextManila == \* "Flood in Manila https://t.co/a1"
    <<"F","l","o","o","d"," ","i","n"," ","M","a","n","i","l","a"," ","h","t","t","p","s",":","/","/","t",".","c","o","/","a","1">>
TextLuzon == \* "UN: fire on Luzon, Pacific"
    <<"U","N",":"," ","f","i","r","e"," ","o","n"," ","L","u","z","o","n",","," ","P","a","c","i","f","i","c">>
TextQuiet == \* "all quiet"
    <<"a","l","l"," ","q","u","i","e","t">>

\* the first post has the shape fetch_posts_by_username builds: text and date
Posts ==
    { [text |-> TextManila, date |-> "2024-03-01"],
      [text |-> TextLuzon, created_at |-> "2024-03-02T10:00:00Z"],
      [text |-> TextQuiet, created_at |-> "2024-03-03T08:30:00Z"],
      [date |-> "2024-03-04"] }

Batches == UNION { [1..n -> Posts] : n \in 0..MaxBatch }

\* dict.get(key, default)
Get(d, key, default) == IF key \in DOMAIN d THEN d[key] ELSE default

\* self.nlp(text).ents : the entities of a text, in order of appearance
nlp(t) ==
    CASE t = TextManila -> << [text |-> "Manila", label_ |-> "GPE"] >>
      [] t = TextLuzon  -> << [text |-> "UN", label_ |-> "ORG"],
                              [text |-> "Luzon", label_ |-> "LOC"],
                              [text |-> "Pacific", label_ |-> "LOC"] >>
      [] OTHER -> << >>

\* rows the geocoding service may hold for a place, best match first
MatchA == [City |-> "Manila", Country |-> "PHL", Y |-> 14, X |-> 120]
MatchB == [City |-> "", Country |-> "", Y |-> 16, X |-> 121]
GeoCandidates == { << >>, <<MatchA>>, <<MatchB, MatchA>> }

Min(a, b) == IF a <= b THEN a ELSE b

\* geocode(place, max_locations=n, as_featureset=True): the n best rows
geocode(candidates, max_locations) ==
    SubSeq(candidates, 1, Min(max_locations, Len(candidates)))

EmptyLocation == [city |-> "", country |-> "", coordinates |-> << >>]

\* coordinates taken as [X, Y]
location_swapped(geocoded) ==
    [city |-> Get(geocoded, "City", ""),
     country |-> Get(geocoded, "Country", ""),
     coordinates |-> << Get(geocoded, "X", "None"), Get(geocoded, "Y", "None") >>]

\* the dict returned at lines 48-52 for the row geocoded
location_from(geocoded) ==
    [city |-> Get(geocoded, "City", ""),
     country |-> Get(geocoded, "Country", ""),
     coordinates |-> << Get(geocoded, "Y", "None"), Get(geocoded, "X", "None") >>]

\* a label test that lets every entity through
is_any_entity(ent) == ent.label_ = ent.label_

is_place(ent) == ent.label_ \in {"GPE", "LOC"}

\* the dict built at lines 149-155
standardized_entry(entry, loc) ==
    [incident_type |-> identify_incident_type(Get(entry, "text", <<>>)),
     location |-> loc,
     date |-> Get(entry, "created_at", ""),
     description |-> Get(entry, "text", <<>>),
     original_text |-> Get(entry, "text", <<>>)]

\* insertion at the front of the list
prepend_entry(list, e) == <<e>> \o list

\* processed_data.append(standardized_entry)
append_entry(list, e) == Append(list, e)

NoFile == [exists |-> FALSE, content |-> << >>, complete |-> FALSE]

\* what an earlier successful run left at output_path
EarlierOutput ==
    [exists |-> TRUE,
     content |-> << standardized_entry([text |-> TextQuiet, created_at |-> "2024-02-01T00:00:00Z"],
                                       EmptyLocation) >>,
     complete |-> TRUE]

(***************************************************************************)
(* process_data, one step at a time                                        *)
(***************************************************************************)
Init ==
    /\ input_file \in { [readable |-> r, posts |-> b] : r \in BOOLEAN, b \in Batches }
    /\ prior_output \in { NoFile, EarlierOutput }
    /\ output_file = prior_output
    /\ pc = "read"
    /\ raw_data = << >>
    /\ processed_data = << >>
    /\ idx = 1
    /\ ent_i = 1
    /\ location_info = EmptyLocation
    /\ geolog = << >>
    /\ dumped = 0
    /\ error = ""
    /\ text = << >>
    /\ result = ""
    /\ cpc = "idle"

\* where the for loop of line 146 goes once n entries are done
after_entries(data, n) == IF n < Len(data) THEN "extract" ELSE "open"

\* lines 142-145; a failing open/json.load lands in the except of line 163
ReadInput ==
    /\ pc = "read"
    /\ IF input_file.readable
       THEN /\ raw_data' = input_file.posts
            /\ pc' = after_entries(input_file.posts, 0)
            /\ error' = error
       ELSE /\ raw_data' = raw_data
            /\ pc' = "done"
            /\ error' = "read"
    /\ processed_data' = << >>
    /\ idx' = 1
    /\ ent_i' = 1
    /\ UNCHANGED <<input_file, prior_output, output_file, location_info,
                   geolog, dumped, classify_vars>>

doc_ents == nlp(Get(raw_data[idx], "text", <<>>))

\* lines 43-44: an entity whose label is not GPE/LOC is passed over
SkipEntity ==
    /\ pc = "extract"
    /\ ent_i <= Len(doc_ents)
    /\ ~is_place(doc_ents[ent_i])
    /\ ent_i' = ent_i + 1
    /\ UNCHANGED <<input_file, prior_output, output_file, pc, raw_data,
                   processed_data, idx, location_info, geolog, dumped, error,
                   classify_vars>>

\* lines 45-52 when the geocode call returns
GeocodeEntity ==
    /\ pc = "extract"
    /\ ent_i <= Len(doc_ents)
    /\ is_place(doc_ents[ent_i])
    /\ \E candidates \in GeoCandidates :
         LET rows == geocode(candidates, 1) IN
           /\ geolog' = Append(geolog, [entry |-> idx, ent |-> ent_i,
                                        place |-> doc_ents[ent_i].text,
                                        raised |-> FALSE,
                                        candidates |-> candidates,
                                        rows |-> rows])
           /\ IF Len(rows) > 0
              THEN /\ location_info' = location_from(rows[1])
                   /\ pc' = "entry"
                   /\ ent_i' = ent_i
              ELSE /\ location_info' = location_info
                   /\ pc' = pc
                   /\ ent_i' = ent_i + 1
    /\ UNCHANGED <<input_file, prior_output, output_file, raw_data,
                   processed_data, idx, dumped, error, classify_vars>>

\* line 45 when the geocode call raises: nothing in extract_location
\* catches it, so it reaches the except of line 163
GeocodeRaises ==
    /\ pc = "extract"
    /\ ent_i <= Len(doc_ents)
    /\ is_place(doc_ents[ent_i])
    /\ geolog' = Append(geolog, [entry |-> idx, ent |-> ent_i,
                                 place |-> doc_ents[ent_i].text,
                                 raised |-> TRUE,
                                 candidates |-> << >>,
                                 rows |-> << >>])
    /\ error' = "geocode"
    /\ pc' = "done"
    /\ UNCHANGED <<input_file, prior_output, output_file, raw_data,
                   processed_data, idx, ent_i, location_info, dumped,
                   classify_vars>>

\* line 53: the entities are exhausted
NoLocation ==
    /\ pc = "extract"
    /\ ent_i > Len(doc_ents)
    /\ location_info' = EmptyLocation
    /\ pc' = "entry"
    /\ UNCHANGED <<input_file, prior_output, output_file, raw_data,
                   processed_data, idx, ent_i, geolog, dumped, error,
                   classify_vars>>

\* lines 148-156
BuildEntry ==
    /\ pc = "entry"
    /\ processed_data' = append_entry(processed_data,
                                      standardized_entry(raw_data[idx], location_info))
    /\ pc' = after_entries(raw_data, idx)
    /\ idx' = idx + 1
    /\ ent_i' = 1
    /\ location_info' = EmptyLocation
    /\ UNCHANGED <<input_file, prior_output, output_file, raw_data, geolog,
                   dumped, error, classify_vars>>

\* line 158: open(output_path, "w") creates or truncates the file, or fails
OpenOutput ==
    /\ pc = "open"
    /\ \E ok \in BOOLEAN :
         IF ok
         THEN /\ output_file' = [exists |-> TRUE, content |-> << >>, complete |-> FALSE]
              /\ pc' = "dump"
              /\ error' = error
         ELSE /\ output_file' = output_file
              /\ pc' = "done"
              /\ error' = "open"
    /\ dumped' = 0
    /\ UNCHANGED <<input_file, prior_output, raw_data, processed_data, idx,
                   ent_i, location_info, geolog, classify_vars>>

\* line 159: json.dump writes the array piece by piece; a failing write
\* leaves what was written and lands in the except of line 163
DumpRecord ==
    /\ pc = "dump"
    /\ dumped < Len(processed_data)
    /\ \E ok \in BOOLEAN :
         IF ok
         THEN /\ output_file' = [output_file EXCEPT
                                   !.content = Append(@, processed_data[dumped + 1])]
              /\ dumped' = dumped + 1
              /\ pc' = pc
              /\ error' = error
         ELSE /\ output_file' = output_file
              /\ dumped' = dumped
              /\ pc' = "done"
              /\ error' = "write"
    /\ UNCHANGED <<input_file, prior_output, raw_data, processed_data, idx,
                   ent_i, location_info, geolog, classify_vars>>

\* lines 159-161: the closing bracket is written and the file closed
FinishDump ==
    /\ pc = "dump"
    /\ dumped = Len(processed_data)
    /\ \E ok \in BOOLEAN :
         IF ok
         THEN /\ output_file' = [output_file EXCEPT !.complete = TRUE]
              /\ error' = error
         ELSE /\ output_file' = output_file
              /\ error' = "write"
    /\ pc' = "done"
    /\ UNCHANGED <<input_file, prior_output, raw_data, processed_data, idx,
                   ent_i, location_info, geolog, dumped, classify_vars>>

Next ==
    \/ ReadInput
    \/ SkipEntity
    \/ GeocodeEntity
    \/ GeocodeRaises
    \/ NoLocation
    \/ BuildEntry
    \/ OpenOutput
    \/ DumpRecord
    \/ FinishDump

Spec == Init /\ [][Next]_vars

(***************************************************************************)
(* Stand-alone calls of identify_incident_type                             *)
(***************************************************************************)
InitClassify ==
    /\ text \in ClassifyInputs
    /\ result = ""
    /\ cpc = "called"
    /\ input_file = [readable |-> FALSE, posts |-> << >>]
    /\ prior_output = NoFile
    /\ output_file = NoFile
    /\ pc = "idle"
    /\ raw_data = << >>
    /\ processed_data = << >>
    /\ idx = 1
    /\ ent_i = 1
    /\ location_info = EmptyLocation
    /\ geolog = << >>
    /\ dumped = 0
    /\ error = ""

\* lines 129-132
Classify ==
    /\ cpc = "called"
    /\ result' = identify_incident_type(text)
    /\ cpc' = "returned"
    /\ UNCHANGED <<text, batch_vars>>

NextClassify == Classify

SpecClassify == InitClassify /\ [][NextClassify]_vars

(***************************************************************************)
(* Either use of the classifier: inside a batch run or called on its own   *)
(***************************************************************************)
InitAny == Init \/ InitClassify

NextAny == Next \/ NextClassify

SpecAny == InitAny /\ [][NextAny]_vars

(***************************************************************************)
(* Vocabulary of the properties                                            *)
(***************************************************************************)
\* two characters that differ at most in case
SameLetter(a, b) == lower_char(a) = lower_char(b)

\* keyword number i occurs in t as a case-insensitive substring
Occurs(i, t) ==
    LET k == keywords[i][1] IN
      \E p \in 1..Len(t) :
          /\ p + Len(k) - 1 <= Len(t)
          /\ \A q \in 1..Len(k) : SameLetter(t[p + q - 1], k[q])

PlaceLabels == {"GPE", "LOC"}

\* the entities the NER model reports for entry number i of the batch
EntsOf(i) == nlp(Get(raw_data[i], "text", <<>>))

\* the date a raw post carries, under either key
PostDate(entry) ==
    IF "date" \in DOMAIN entry THEN entry["date"]
    ELSE Get(entry, "created_at", "")

\* the link-reference pattern https://<domain>/<token>
Digits == {"0", "1", "2", "3", "4", "5", "6", "7", "8", "9"}
Letters == Upper \cup { lower_char(c) : c \in Upper }
DomainChars == Letters \cup Digits \cup {".", "-"}
TokenChars == Letters \cup Digits
LinkPrefix == <<"h","t","t","p","s",":","/","/">>

\* last position of the longest run of characters of class starting at p
RECURSIVE RunEnd(_, _, _)
RunEnd(t, p, class) ==
    IF p <= Len(t) /\ t[p] \in class THEN RunEnd(t, p + 1, class) ELSE p - 1

\* last position of the link that starts at p, 0 when none starts there
LinkEnd(t, p) ==
    IF p + Len(LinkPrefix) - 1 <= Len(t)
       /\ SubSeq(t, p, p + Len(LinkPrefix) - 1) = LinkPrefix
    THEN LET d == RunEnd(t, p + Len(LinkPrefix), DomainChars) IN
           IF d >= p + Len(LinkPrefix) /\ d + 1 <= Len(t) /\ t[d + 1] = "/"
           THEN LET e == RunEnd(t, d + 2, TokenChars) IN
                  IF e >= d + 2 THEN e ELSE 0
           ELSE 0
    ELSE 0

FirstLink(t) ==
    LET starts == { p \in 1..Len(t) : LinkEnd(t, p) > 0 } IN
      IF starts = {} THEN << >>
      ELSE LET p == CHOOSE s \in starts : \A o \in starts : s <= o IN
             SubSeq(t, p, LinkEnd(t, p))

RECURSIVE StripFrom(_, _)
StripFrom(t, p) ==
    IF p > Len(t) THEN << >>
    ELSE IF LinkEnd(t, p) > 0 THEN StripFrom(t, LinkEnd(t, p) + 1)
    ELSE <<t[p]>> \o StripFrom(t, p + 1)

StripLinks(t) == StripFrom(t, 1)

(***************************************************************************)
(* Properties                                                              *)
(***************************************************************************)

\* C1: a geocode call that raises is treated as "no location found": the
\* error does not leave the location resolver, the record gets the empty
\* LocationInfo, and the whole batch is still processed and written.
C1_GeocodeFailureIsolated ==
    (pc = "done" /\ \E k \in 1..Len(geolog) : geolog[k].raised)
        => /\ error # "geocode"
           /\ Len(processed_data) = Len(raw_data)
           /\ \A k \in 1..Len(geolog) :
                  geolog[k].raised
                      => processed_data[geolog[k].entry].location = EmptyLocation
           /\ error = "" => (output_file.complete /\ output_file.content = processed_data)

\* C2: a process_data call that completes without error has written exactly
\* one record per raw post, the i-th record derived from the i-th post.
C2_OneToOneOrdered ==
    (pc = "done" /\ error = "")
        => /\ output_file.exists /\ output_file.complete
           /\ Len(output_file.content) = Len(raw_data)
           /\ \A i \in 1..Len(raw_data) :
                  LET t == Get(raw_data[i], "text", <<>>) IN
                    /\ i <= Len(output_file.content)
                    /\ output_file.content[i].original_text = t
                    /\ output_file.content[i].description = t
                    /\ (\E j \in 1..Len(keywords) : Occurs(j, t))
                           <=> output_file.content[i].incident_type # "unknown"

C2_Witness ==
    /\ pc = "done" /\ error = ""
    /\ Len(raw_data) = 2
    /\ raw_data[1] # raw_data[2]
    /\ output_file.complete
    /\ Len(output_file.content) = 2

\* C3: a process_data call that ends in an error leaves the output file
\* exactly as it was before the call.
C3_NoPartialWrite ==
    (pc = "done" /\ error # "") => output_file = prior_output

\* C4: identify_incident_type returns the label of the first keyword, in
\* taxonomy order, that occurs case-insensitively in the text.
C4_FirstKeywordInTaxonomyOrderWins ==
    cpc = "returned"
        => \A i \in 1..Len(keywords) :
               (Occurs(i, text) /\ \A j \in 1..(i - 1) : ~Occurs(j, text))
                   => result = keywords[i][2]

\* "FIREFlood": fire comes first in the text, flood first in the taxonomy
C4_Witness ==
    /\ cpc = "returned"
    /\ text = <<"F","I","R","E","F","l","o","o","d">>
    /\ result = "flooding"

\* C5: identify_incident_type returns "unknown" exactly when no taxonomy
\* keyword occurs case-insensitively in the text, and never returns an
\* empty string; the same holds of the incident_type of every record that
\* process_data emits.
C5_UnknownIffNoKeyword ==
    /\ cpc = "returned"
           => /\ result = "unknown" <=> (\A i \in 1..Len(keywords) : ~Occurs(i, text))
              /\ result # ""
    /\ \A r \in 1..Len(processed_data) :
           LET t == Get(raw_data[r], "text", <<>>) IN
             /\ processed_data[r].incident_type # ""
             /\ processed_data[r].incident_type = "unknown"
                    <=> (\A i \in 1..Len(keywords) : ~Occurs(i, t))

\* "ok rain": no keyword occurs
C5_Witness ==
    /\ cpc = "returned"
    /\ text = <<"o","k"," ","r","a","i","n">>
    /\ result = "unknown"

\* C6: every emitted record has original_link, the first link of the post's
\* text (empty when none), and description, the text without its links.
C6_LinkExtractedAndStripped ==
    \A i \in 1..Len(processed_data) :
        LET rec == processed_data[i]
            t == Get(raw_data[i], "text", <<>>)
        IN /\ "original_link" \in DOMAIN rec
           /\ rec["original_link"] = FirstLink(t)
           /\ rec.description = StripLinks(t)

\* C7: the date of every emitted record equals the post's date, whether the
\* post carries it under the key date or under the key created_at.
C7_DatePreserved ==
    \A i \in 1..Len(processed_data) :
        processed_data[i].date = PostDate(raw_data[i])

\* C8: when extract_location returns, its result is the all-empty
\* LocationInfo exactly when the geocoder returned zero results for every
\* GPE/LOC entity of the text; a returned match gives coordinates [Y, X].
C8_EmptyIffNoResults ==
    pc = "entry"
        => /\ location_info = EmptyLocation
                <=> \A j \in 1..Len(EntsOf(idx)) :
                        EntsOf(idx)[j].label_ \in PlaceLabels
                            => \E k \in 1..Len(geolog) :
                                   /\ geolog[k].entry = idx
                                   /\ geolog[k].ent = j
                                   /\ ~geolog[k].raised
                                   /\ Len(geolog[k].rows) = 0
           /\ \A k \in 1..Len(geolog) :
                  (geolog[k].entry = idx /\ Len(geolog[k].rows) > 0)
                      => location_info.coordinates
                             = << geolog[k].rows[1].Y, geolog[k].rows[1].X >>

\* "UN: fire on Luzon, Pacific": Luzon has no result, Pacific has one
C8_Witness ==
    /\ pc = "entry"
    /\ location_info.coordinates = <<14, 120>>
    /\ \E k \in 1..Len(geolog) :
           /\ geolog[k].entry = idx
           /\ geolog[k].ent = 2
           /\ Len(geolog[k].rows) = 0

\* C9: geocode is called only for GPE/LOC entities, in their order of
\* appearance and without passing one over, never after a call of the same
\* text returned a match; the location is built from the top-ranked match
\* of that call alone.
C9_StopsAtFirstMatch ==
    /\ \A k \in 1..Len(geolog) :
           LET c == geolog[k]
               ents == EntsOf(c.entry)
           IN /\ c.ent \in 1..Len(ents)
              /\ ents[c.ent].label_ \in PlaceLabels
              /\ c.place = ents[c.ent].text
              /\ Len(c.rows) <= 1
              /\ \A j \in 1..(c.ent - 1) :
                     ents[j].label_ \in PlaceLabels
                         => \E h \in 1..(k - 1) :
                                geolog[h].entry = c.entry /\ geolog[h].ent = j
              /\ \A h \in (k + 1)..Len(geolog) :
                     \/ geolog[h].entry > c.entry
                     \/ /\ geolog[h].entry = c.entry
                        /\ geolog[h].ent > c.ent
                        /\ Len(c.rows) = 0
    /\ pc = "entry"
           => \A k \in 1..Len(geolog) :
                  (geolog[k].entry = idx /\ Len(geolog[k].candidates) > 0)
                      => /\ location_info.city = geolog[k].candidates[1].City
                         /\ location_info.country = geolog[k].candidates[1].Country
                         /\ location_info.coordinates
                                = << geolog[k].candidates[1].Y, geolog[k].candidates[1].X >>

\* the batch is the single post "UN: fire on Luzon, Pacific"; Luzon matched
\* with two candidates and the run ended without a call for Pacific
C9_Witness ==
    /\ pc = "done" /\ error = ""
    /\ Len(raw_data) = 1
    /\ Len(geolog) = 1
    /\ geolog[1].place = "Luzon"
    /\ Len(geolog[1].candidates) = 2
    /\ output_file.content[1].location.coordinates = <<16, 121>>

\* C10: a text consisting of exactly one taxonomy keyword is classified
\* with the label the taxonomy maps that keyword to.
C10_NoKeywordShadowed ==
    cpc = "returned"
        => \A i \in 1..Len(keywords) :
               text = keywords[i][1] => result = keywords[i][2]

====
